---- MODULE Spec2Model ----
\* Model of the single-writer transaction batcher of greener:
\*   src/db.go  (BatchDB: NewBatchDB, batchProcessor, Write, Close, direct reads)
\*   src/tx.go  (txWrapper, rowWrapper, rowsWrapper)
\* Each caller goroutine issues one Write; the processor goroutine receives the
\* requests (unit 1 is the first request received, unit 2 the second, ...),
\* runs each unit function step by step (the handle and cursor operations the
\* function performs are the steps), and commits on timer ticks.
EXTENDS Integers, Sequences, FiniteSets, TLC

\* ---------------------------------------------------------------- bounds
NumUnits == 3          \* number of concurrent Write calls (one unit each)
MaxCursors == 1        \* cursors (row and row-set wrappers) created in a run
MaxCursorCallers == 2  \* queries are explored in runs of at most this many
                       \* callers, larger runs use ExecContext only

Units == 1..NumUnits
TxIds == 1..NumUnits   \* every Begin is triggered by a distinct request
NoTx == 0              \* currentTx == nil / no handle created yet

\* ---------------------------------------------------------------- errors
\* error values; unit is 0 unless the error is specific to one unit function
Err(k, u) == [kind |-> k, unit |-> u]
NilErr == Err("nil", 0)
\* fmt.Errorf("Transaction aborted")
TxAbortedErr == Err("TransactionAborted", 0)
\* fmt.Errorf("this transaction is already aborted")
AlreadyAbortedErr == Err("AlreadyAborted", 0)
\* an error reported by database/sql for a statement, a scan, a rows call
StoreErr == Err("store", 0)
BeginErr == Err("begin", 0)
CommitErr == Err("commit", 0)
\* sql: database is closed
ClosedErr == Err("closed", 0)
\* the error a unit function makes up itself
UnitErr(u) == Err("unit", u)
\* bool results of rowsWrapper.Next, carried in the same shape
TrueRet == Err("true", 0)
FalseRet == Err("false", 0)
\* fnRet of a unit whose function has not returned
NoRet == Err("none", 0)

VARIABLES
  callerPC,     \* caller goroutine: "idle" (before or in the send of Write,
                \* db.go:167), "waiting" (db.go:168), "done" (Write returned);
                \* "absent" for a caller that is not part of the run
  result,       \* values received on the caller's respChan, in order
  procPC,       \* batchProcessor: "select" (in the select) or "exec" (in req.fn)
  cur,          \* the unit whose function the processor is executing, 0 if none
  requests,     \* batchProcessor's pending list
  currentTx,    \* batchProcessor's currentTx (NoTx for nil)
  tickReady,    \* a tick waits in timer.C (capacity 1)
  txState,      \* sql.Tx: "none","live","committed","commitFailed","rolledback"
  txWrites,     \* uncommitted effects of each transaction
  committed,    \* the committed store, what the read pool sees
  txWrappers,   \* per unit: the handle [tx, err] created at db.go:128
  rowsW,        \* per unit: rowsWrapper obtained from its handle: "none","open"
  rowW,         \* per unit: rowWrapper: "none","row","nil" (row == nil)
  unitState,    \* per unit: "notrun","running","returned"
  fnRet,        \* per unit: the value req.fn returned (NoRet before)
  pendingAtRet, \* per unit: pending list at the moment req.fn returned
  cellAtRet,    \* per unit: the handle's error cell at that moment
  beginFailed,  \* units whose Begin failed (db.go:123)
  abortedUnits, \* units whose batch went through the abort branch
  commitCalls,  \* per tx: calls of tx.Commit
  seenErr,      \* the last error an operation returned to the running function
  lastOp,       \* observables of the handle/cursor operation the last step
                \* performed, NoOp when the last step was not one
  panicked,     \* "none", or the panic that ended the process
  ctorPC,       \* NewBatchDB: "new" (not called), "ok" (returned db), "failed"
  writeDB,      \* the write pool: "nil" (never opened), "open", "closed"
  readDB,       \* the read pool: "nil", "open", "closed"
  started,      \* the processor goroutine was started (db.go:108)
  closePC,      \* Close: "idle", "readClosed" (after db.go:173), "done"
  afterClose,   \* units whose request was handed over after Close had begun
  flushTimeout, \* BatchDB.flushTimeout, the argument of NewBatchDB (an int64)
  period,       \* the period the flush ticker was created with (db.go:115)
  inner         \* [outer, req]: the running unit function outer has called
                \* Write itself, req is that inner request; NoInner if none

procVars == <<procPC, cur, requests, currentTx, tickReady>>
callerVars == <<callerPC, result>>
storeVars == <<txState, txWrites, committed, commitCalls>>
handleVars == <<txWrappers, rowsW, rowW, seenErr, lastOp, panicked>>
unitVars == <<unitState, fnRet, pendingAtRet, cellAtRet, beginFailed, abortedUnits>>
lifeVars == <<ctorPC, writeDB, readDB, started, closePC, afterClose>>
extVars == <<flushTimeout, period, inner>>
vars == <<procVars, callerVars, storeVars, handleVars, unitVars, lifeVars, extVars>>

\* ---------------------------------------------------------------- helpers
Range(s) == {s[i] : i \in 1..Len(s)}

NoOp == [op |-> "none", unit |-> 0, cellSet |-> FALSE, contacted |-> FALSE,
         ret |-> NilErr, txDone |-> FALSE, escaped |-> FALSE, seen |-> {}]

TxDone(t) == txState[t] \in {"committed", "commitFailed", "rolledback"}

NoInner == [outer |-> 0, req |-> 0]

\* ---------------------------------------------------------------- time.Duration
\* a time.Duration is an int64 in two's complement: its eight bytes, least
\* significant first
RECURSIVE ByteAt(_, _)
ByteAt(n, i) == IF i = 1 THEN n % 256 ELSE ByteAt(n \div 256, i - 1)
\* the Duration of n nanoseconds, for a small n >= 0
Duration(n) == [i \in 1..8 |-> ByteAt(n, i)]
\* time.Millisecond, in nanoseconds
Millisecond == 1000000
\* int64 multiplication by a small positive c, wrapping at 2^64: bytes i..8
\* of the product, given the carry into byte i
RECURSIVE MulFrom(_, _, _, _)
MulFrom(d, c, i, carry) ==
  IF i > 8 THEN <<>>
  ELSE LET v == d[i] * c + carry
       IN <<v % 256>> \o MulFrom(d, c, i + 1, v \div 256)
Mul64(d, c) == MulFrom(d, c, 1, 0)
\* d > 0 on an int64
IsPositive(d) == d[8] < 128 /\ \E i \in 1..8 : d[i] # 0
\* the ticker is created with the argument itself
\* db.go:115  time.NewTicker(db.flushTimeout * time.Millisecond)
TickerPeriod(flush) == Mul64(flush, Millisecond)
\* db_test.go:37  NewBatchDB(dbPath, 3)
FlushOfTest == Duration(3)
\* arguments of NewBatchDB: 0, 1ns, 3 (the test), 1ms, the least value whose
\* product with time.Millisecond exceeds the int64 range, and -1
FlushInputs ==
  {Duration(0), Duration(1), Duration(3), Duration(1000000),
   <<247, 90, 208, 123, 99, 8, 0, 0>>, [i \in 1..8 |-> 255]}

\* the effect of the statements unit u executes through its handle: the row
\* (the key) the unit writes, one per unit
Effect(u) == u

\* the state of the callers, the processor loop and the store before the
\* first request
RunInit ==
  /\ \E n \in 1..NumUnits :
       callerPC = [u \in Units |-> IF u <= n THEN "idle" ELSE "absent"]
  /\ result = [u \in Units |-> <<>>]
  /\ procPC = "select"
  /\ cur = 0
  /\ requests = <<>>
  /\ currentTx = NoTx
  /\ tickReady = FALSE
  /\ txState = [t \in TxIds |-> "none"]
  /\ txWrites = [t \in TxIds |-> {}]
  /\ committed = {}
  /\ txWrappers = [u \in Units |-> [id |-> 0, tx |-> NoTx, err |-> NilErr]]
  /\ rowsW = [u \in Units |-> "none"]
  /\ rowW = [u \in Units |-> "none"]
  /\ unitState = [u \in Units |-> "notrun"]
  /\ fnRet = [u \in Units |-> NoRet]
  /\ pendingAtRet = [u \in Units |-> <<>>]
  /\ cellAtRet = [u \in Units |-> NoRet]
  /\ beginFailed = {}
  /\ abortedUnits = {}
  /\ commitCalls = [t \in TxIds |-> 0]
  /\ seenErr = NilErr
  /\ lastOp = NoOp
  /\ panicked = "none"
  /\ closePC = "idle"
  /\ afterClose = {}
  /\ inner = NoInner

\* db.go:100-109  NewBatchDB has returned the db: both pools are open and the
\* processor goroutine runs
Init ==
  /\ RunInit
  /\ ctorPC = "ok"
  /\ writeDB = "open"
  /\ readDB = "open"
  /\ started = TRUE
  /\ flushTimeout = FlushOfTest
  /\ period = TickerPeriod(FlushOfTest)

\* before NewBatchDB is called
LifeInit ==
  /\ RunInit
  /\ ctorPC = "new"
  /\ writeDB = "nil"
  /\ readDB = "nil"
  /\ started = FALSE
  /\ flushTimeout = <<>>
  /\ period = <<>>

\* ---------------------------------------------------------------- database/sql
\* the store as the three variables that describe it
Store == [txState |-> txState, txWrites |-> txWrites, committed |-> committed]
\* tx.Commit(): a live transaction ends; when the store accepts the commit
\* (ok) its effects become part of the committed store, otherwise they are
\* lost; on a finished transaction Commit returns ErrTxDone and changes nothing
Commit(st, t, ok) ==
  IF st.txState[t] = "live"
  THEN [txState |-> [st.txState EXCEPT ![t] = IF ok THEN "committed" ELSE "commitFailed"],
        txWrites |-> [st.txWrites EXCEPT ![t] = {}],
        committed |-> IF ok THEN st.committed \cup st.txWrites[t] ELSE st.committed]
  ELSE st
\* Abort ends the transaction with Commit instead of Rollback
RollbackAsCommit(st, t) == Commit(st, t, TRUE)
\* tx.go:19  t.tx.Rollback(): a live transaction ends and its uncommitted
\* effects are discarded; on a finished one it returns ErrTxDone and changes
\* nothing
Rollback(st, t) ==
  IF st.txState[t] = "live"
  THEN [st EXCEPT !.txState[t] = "rolledback", !.txWrites[t] = {}]
  ELSE st
\* outcomes of a statement or a Scan issued on transaction t: both on a live
\* transaction, only an error once it is finished (ErrTxDone, rows closed)
CallOutcomes(t) == IF txState[t] = "live" THEN {"ok", "err"} ELSE {"err"}
\* rows.Next(): false once the rows are closed with the transaction
NextOutcomes(t) == IF txState[t] = "live" THEN {TrueRet, FalseRet} ELSE {FalseRet}
\* rows.Close(): nil on rows that are already closed
CloseOutcomes(t) == IF txState[t] = "live" THEN {NilErr, StoreErr} ELSE {NilErr}
\* rows.Err()
ErrOutcomes(t) == {NilErr, StoreErr}
\* db.writeDB.Begin() on the pool of one connection: the connection is free
\* only when no transaction is live
ConnFree == \A t \in TxIds : txState[t] # "live"
\* Begin on a closed pool fails at once with "sql: database is closed"
BeginOutcomes == IF writeDB = "open" THEN BOOLEAN ELSE {FALSE}
BeginFailure == IF writeDB = "open" THEN BeginErr ELSE ClosedErr
FreshTx == CHOOSE t \in TxIds : txState[t] = "none" /\ \A s \in TxIds : s < t => txState[s] # "none"

\* ---------------------------------------------------------------- db.go
\* a transaction is begun only while currentTx is nil
NeedBeginFirstOnly(reqs) == Len(reqs) = 0 /\ currentTx = NoTx
\* db.go:120  len(requests) == 0
NeedBegin(reqs) == Len(reqs) = 0
\* the tick commits only when more than one request is pending
HasPendingOffByOne(reqs) == Len(reqs) > 1
\* db.go:148  len(requests) > 0
HasPending(reqs) == Len(reqs) > 0
\* db.go:130  err != nil
FnFailed(err) == err # NilErr
\* the processor never notices that the handle was aborted
AbortDetectedNever(w) == FALSE
\* the processor aborts on every error the function returns
MustAbortUnchecked(err, w) == err # NilErr
\* db.go:130-135  err != nil and txWrapper.err == nil: the processor calls
\* Abort itself only when the handle has not been aborted yet
MustAbort(err, w) == err # NilErr /\ w.err = NilErr
\* db.go:138  txWrapper.err != nil
AbortDetected(w) == w.err # NilErr
\* the request is put at the head of the pending list
AppendRequestFront(reqs, u) == <<u>> \o reqs
\* the request is not put in the pending list
AppendRequestDrop(reqs, u) == reqs
\* the new request replaces the pending list
AppendRequestReplace(reqs, u) == <<u>>
\* db.go:146  requests = append(requests, req)
AppendRequest(reqs, u) == Append(reqs, u)
\* the pending list is kept after it has been answered
ClearRequestsKeep(reqs) == reqs
\* db.go:143, 155  requests = requests[:0]
ClearRequests(reqs) == <<>>
\* the earlier requests are not answered
AbortResponsesNone(reqs) == <<>>
\* the earlier requests are answered with nil
AbortResponsesNil(reqs) == [i \in 1..Len(reqs) |-> NilErr]
\* db.go:139-142  every earlier request gets the standard message
AbortResponses(reqs) == [i \in 1..Len(reqs) |-> TxAbortedErr]
\* the answering loop stops one request short
CommitResponsesDropLast(reqs, commitErr) == [i \in 1..Len(reqs) - 1 |-> commitErr]
\* db.go:152-154  every pending request gets commitErr
CommitResponses(reqs, commitErr) == [i \in 1..Len(reqs) |-> commitErr]
\* the unit whose Begin failed is answered with the generic abort error
BeginErrorResponseGeneric(err) == TxAbortedErr
\* db.go:124  req.resp <- err
BeginErrorResponse(err) == err
\* the failing unit is answered with the generic abort error
FnErrorResponseGeneric(err) == TxAbortedErr
\* db.go:136  req.resp <- err
FnErrorResponse(err) == err
\* one handle is made per transaction and handed to every unit of it
NewHandlePerTx(ws, t) == t
\* db.go:128  &txWrapper{...}: a fresh allocation, distinct from every handle
\* made before
NewHandle(ws, t) == Cardinality({u \in Units : ws[u].id # 0}) + 1
\* db.go:128  txWrapper{tx: currentTx}, its error cell empty
NewTxWrapper(h, t) == [id |-> h, tx |-> t, err |-> NilErr]
\* requests are taken while a unit function is running (go req.fn(...))
CanReceiveAlways(pc) == TRUE
\* db.go:119  the select takes a request only between two unit functions
CanReceive(pc) == pc = "select"

\* r.resp <- e for every request of reqs, e taken from resps; the caller
\* blocked in Write (db.go:168) receives it and returns
Deliver(res, reqs, resps) ==
  [u \in Units |->
     IF \E i \in 1..Len(reqs) : reqs[i] = u
     THEN LET i == CHOOSE j \in 1..Len(reqs) : reqs[j] = u
          IN IF i <= Len(resps) THEN Append(res[u], resps[i]) ELSE res[u]
     ELSE res[u]]
Returned(pcs, res) ==
  [u \in Units |-> IF pcs[u] = "waiting" /\ Len(res[u]) > 0 THEN "done" ELSE pcs[u]]

\* time.Ticker: a tick is put in timer.C unless one is still waiting there
TimerFire ==
  /\ started
  /\ panicked = "none"
  /\ ~tickReady
  /\ tickReady' = TRUE
  /\ lastOp' = NoOp
  /\ UNCHANGED <<procPC, cur, requests, currentTx, callerVars, storeVars, unitVars>>
  /\ UNCHANGED <<txWrappers, rowsW, rowW, seenErr, panicked>>
  /\ UNCHANGED <<lifeVars, extVars>>

\* db.go:167 and db.go:119-129  the send of Write meets the receive of the
\* processor (the channel is unbuffered), then case req := <-db.writeRequests
\* up to the call of req.fn
Receive(u) ==
  /\ started
  /\ panicked = "none"
  /\ CanReceive(procPC)
  /\ callerPC[u] = "idle"
  \* the callers are interchangeable: units are numbered in the order in
  \* which the channel hands their requests to the processor
  /\ \A v \in Units : v < u => callerPC[v] # "idle"
  /\ IF NeedBegin(requests)
     THEN /\ ConnFree
          /\ \E ok \in BeginOutcomes :
               IF ok
               THEN /\ currentTx' = FreshTx
                    /\ txState' = [txState EXCEPT ![FreshTx] = "live"]
                    /\ txWrappers' = [txWrappers EXCEPT ![u] =
                                       NewTxWrapper(NewHandle(txWrappers, FreshTx), FreshTx)]
                    /\ procPC' = "exec"
                    /\ cur' = u
                    /\ unitState' = [unitState EXCEPT ![u] = "running"]
                    /\ callerPC' = [callerPC EXCEPT ![u] = "waiting"]
                    /\ UNCHANGED <<result, beginFailed>>
               ELSE /\ currentTx' = NoTx
                    /\ result' = Deliver(result, <<u>>, <<BeginErrorResponse(BeginFailure)>>)
                    /\ callerPC' = [callerPC EXCEPT ![u] = "done"]
                    /\ beginFailed' = beginFailed \cup {u}
                    /\ UNCHANGED <<txState, txWrappers, procPC, cur, unitState>>
     ELSE /\ txWrappers' = [txWrappers EXCEPT ![u] =
                             NewTxWrapper(NewHandle(txWrappers, currentTx), currentTx)]
          /\ procPC' = "exec"
          /\ cur' = u
          /\ unitState' = [unitState EXCEPT ![u] = "running"]
          /\ callerPC' = [callerPC EXCEPT ![u] = "waiting"]
          /\ UNCHANGED <<currentTx, txState, result, beginFailed>>
  /\ UNCHANGED <<requests, tickReady, txWrites, committed, commitCalls>>
  /\ lastOp' = NoOp
  /\ UNCHANGED <<rowsW, rowW, seenErr, panicked>>
  /\ UNCHANGED <<fnRet, pendingAtRet, cellAtRet, abortedUnits>>
  /\ afterClose' = IF closePC # "idle" THEN afterClose \cup {u} ELSE afterClose
  /\ UNCHANGED <<ctorPC, writeDB, readDB, started, closePC, extVars>>

\* db.go:147-156  case <-timer.C
ProcTick ==
  /\ started
  /\ panicked = "none"
  /\ procPC = "select"
  /\ tickReady
  /\ tickReady' = FALSE
  /\ IF HasPending(requests)
     THEN /\ \E ok \in (IF currentTx # NoTx /\ txState[currentTx] = "live"
                        THEN BOOLEAN ELSE {FALSE}) :
               LET commitErr == IF ok THEN NilErr ELSE CommitErr IN
               /\ IF currentTx # NoTx
                  THEN /\ commitCalls' = [commitCalls EXCEPT ![currentTx] = @ + 1]
                       /\ txState' = Commit(Store, currentTx, ok).txState
                       /\ txWrites' = Commit(Store, currentTx, ok).txWrites
                       /\ committed' = Commit(Store, currentTx, ok).committed
                       /\ panicked' = panicked
                  ELSE /\ panicked' = "nilTx"
                       /\ UNCHANGED <<commitCalls, txState, committed, txWrites>>
               /\ result' = Deliver(result, requests, CommitResponses(requests, commitErr))
               /\ callerPC' = Returned(callerPC, result')
          /\ currentTx' = NoTx
          /\ requests' = ClearRequests(requests)
     ELSE UNCHANGED <<currentTx, requests, commitCalls, txState, committed, txWrites,
                      result, callerPC, panicked>>
  /\ UNCHANGED <<procPC, cur>>
  /\ lastOp' = NoOp
  /\ UNCHANGED <<txWrappers, rowsW, rowW, seenErr>>
  /\ UNCHANGED unitVars
  /\ UNCHANGED <<lifeVars, extVars>>

\* ---------------------------------------------------------------- tx.go
\* the operations never look at the cell
ShortCircuitNever(w) == FALSE
\* tx.go:26,37,49,61,77,88,95,102  t.err != nil
ShortCircuit(w) == w.err # NilErr
\* the callers of the run
Callers == {u \in Units : callerPC[u] # "absent"}
\* cursors that exist: at most MaxCursors are created in a run
CursorCount ==
  Cardinality({u \in Units : rowsW[u] # "none"}) + Cardinality({u \in Units : rowW[u] # "none"})
\* every row cursor is made with a nil row
RowOfNil(w) == "nil"
\* tx.go:48-53  the row of the cursor QueryRowContext returns: nil when the
\* cell is set, the row of the underlying transaction otherwise
RowOf(w) == IF ShortCircuit(w) THEN "nil" ELSE "row"
\* an aborted handle answers with nil
StandInNil == NilErr
\* tx.go:27,38,62,78,96,103  the stand-in error of an aborted handle
StandIn == AlreadyAbortedErr
\* tx.go:18  t.err = err
SetCell(w, e) == [w EXCEPT !.err = e]

\* the unit function of u is running in the processor (db.go:129)
Running(u) == procPC = "exec" /\ cur = u
\* Write has returned to the caller of u, who kept a cursor made inside the
\* unit function and uses it afterwards
Escaped(u) == callerPC[u] = "done" /\ unitState[u] = "returned"
\* Write returns at once, without waiting for the response
BlockedNever(u) == FALSE
\* db.go:167-168  the unit function of u is inside a Write call of its own,
\* which returns only with the response to the inner request
Blocked(u) == inner.outer = u /\ callerPC[inner.req] # "done"
CanOp(u) == panicked = "none" /\ ~Blocked(u)
IsError(r) == r.kind \notin {"nil", "true", "false"}

\* what an operation leaves behind for its caller: the observables in lastOp
\* and the error the running function has seen
Observe(u, name, contacted, ret) ==
  /\ lastOp' = [op |-> name, unit |-> u, cellSet |-> txWrappers[u].err # NilErr,
                contacted |-> contacted, ret |-> ret,
                txDone |-> TxDone(txWrappers[u].tx), escaped |-> Escaped(u),
                seen |-> {}]
  /\ seenErr' = IF IsError(ret) /\ Running(u) THEN ret ELSE seenErr

\* tx.go:14-23  txWrapper.Abort
Abort(u, e) ==
  IF txWrappers[u].err # NilErr
  THEN /\ panicked' = "abortAgain"
       /\ UNCHANGED <<txWrappers, txState, txWrites, committed>>
  ELSE /\ txWrappers' = [txWrappers EXCEPT ![u] = SetCell(@, e)]
       /\ txState' = Rollback(Store, txWrappers[u].tx).txState
       /\ txWrites' = Rollback(Store, txWrappers[u].tx).txWrites
       /\ committed' = Rollback(Store, txWrappers[u].tx).committed
       /\ panicked' = panicked
NoAbort == UNCHANGED <<txWrappers, txState, txWrites, committed, panicked>>

\* tx.go:25-34  txWrapper.ExecContext
ExecContext(u) ==
  /\ CanOp(u) /\ Running(u)
  /\ IF ShortCircuit(txWrappers[u])
     THEN Observe(u, "ExecContext", FALSE, StandIn) /\ NoAbort
     ELSE \E o \in CallOutcomes(txWrappers[u].tx) :
            IF o = "ok"
            THEN /\ Observe(u, "ExecContext", TRUE, NilErr)
                 /\ txWrites' = [txWrites EXCEPT ![txWrappers[u].tx] =
                                   @ \cup {Effect(u)}]
                 /\ UNCHANGED <<txWrappers, txState, committed, panicked>>
            ELSE Observe(u, "ExecContext", TRUE, StoreErr) /\ Abort(u, StoreErr)
  /\ UNCHANGED <<procVars, callerVars, commitCalls, rowsW, rowW, unitVars, lifeVars, extVars>>

\* tx.go:36-46  txWrapper.QueryContext
QueryContext(u) ==
  /\ CanOp(u) /\ Running(u)
  /\ rowsW[u] = "none" /\ CursorCount < MaxCursors
  /\ Cardinality(Callers) <= MaxCursorCallers
  /\ IF ShortCircuit(txWrappers[u])
     THEN Observe(u, "QueryContext", FALSE, StandIn) /\ NoAbort /\ UNCHANGED rowsW
     ELSE \E o \in CallOutcomes(txWrappers[u].tx) :
            IF o = "ok"
            THEN /\ Observe(u, "QueryContext", TRUE, NilErr)
                 /\ rowsW' = [rowsW EXCEPT ![u] = "open"]
                 /\ NoAbort
            ELSE /\ Observe(u, "QueryContext", TRUE, StoreErr)
                 /\ Abort(u, StoreErr)
                 /\ UNCHANGED rowsW
  /\ UNCHANGED <<procVars, callerVars, commitCalls, rowW, unitVars, lifeVars, extVars>>

\* tx.go:48-53  txWrapper.QueryRowContext
QueryRowContext(u) ==
  /\ CanOp(u) /\ Running(u)
  /\ rowW[u] = "none" /\ CursorCount < MaxCursors
  /\ Cardinality(Callers) <= MaxCursorCallers
  /\ IF ShortCircuit(txWrappers[u])
     THEN Observe(u, "QueryRowContext", FALSE, NilErr)
     ELSE Observe(u, "QueryRowContext", TRUE, NilErr)
  /\ rowW' = [rowW EXCEPT ![u] = RowOf(txWrappers[u])]
  /\ NoAbort
  /\ UNCHANGED <<procVars, callerVars, commitCalls, rowsW, unitVars, lifeVars, extVars>>

\* tx.go:60-69  rowWrapper.Scan
RowScan(u) ==
  /\ CanOp(u) /\ (Running(u) \/ Escaped(u))
  /\ rowW[u] # "none"
  /\ IF ShortCircuit(txWrappers[u])
     THEN Observe(u, "RowScan", FALSE, StandIn) /\ NoAbort
     ELSE IF rowW[u] = "nil"
          THEN /\ Observe(u, "RowScan", FALSE, NilErr)
               /\ panicked' = "nilRow"
               /\ UNCHANGED <<txWrappers, txState, txWrites, committed>>
          ELSE \E o \in CallOutcomes(txWrappers[u].tx) :
                 IF o = "ok"
                 THEN Observe(u, "RowScan", TRUE, NilErr) /\ NoAbort
                 ELSE Observe(u, "RowScan", TRUE, StoreErr) /\ Abort(u, StoreErr)
  /\ UNCHANGED <<procVars, callerVars, commitCalls, rowsW, rowW, unitVars, lifeVars, extVars>>

\* tx.go:76-85  rowsWrapper.Scan
RowsScan(u) ==
  /\ CanOp(u) /\ (Running(u) \/ Escaped(u))
  /\ rowsW[u] # "none"
  /\ IF ShortCircuit(txWrappers[u])
     THEN Observe(u, "RowsScan", FALSE, StandIn) /\ NoAbort
     ELSE \E o \in CallOutcomes(txWrappers[u].tx) :
            IF o = "ok"
            THEN Observe(u, "RowsScan", TRUE, NilErr) /\ NoAbort
            ELSE Observe(u, "RowsScan", TRUE, StoreErr) /\ Abort(u, StoreErr)
  /\ UNCHANGED <<procVars, callerVars, commitCalls, rowsW, rowW, unitVars, lifeVars, extVars>>

\* tx.go:87-92  rowsWrapper.Next
RowsNext(u) ==
  /\ CanOp(u) /\ (Running(u) \/ Escaped(u))
  /\ rowsW[u] # "none"
  /\ IF ShortCircuit(txWrappers[u])
     THEN Observe(u, "RowsNext", FALSE, FalseRet)
     ELSE \E r \in NextOutcomes(txWrappers[u].tx) : Observe(u, "RowsNext", TRUE, r)
  /\ NoAbort
  /\ UNCHANGED <<procVars, callerVars, commitCalls, rowsW, rowW, unitVars, lifeVars, extVars>>

\* tx.go:94-99  rowsWrapper.Close
RowsClose(u) ==
  /\ CanOp(u) /\ (Running(u) \/ Escaped(u))
  /\ rowsW[u] # "none"
  /\ IF ShortCircuit(txWrappers[u])
     THEN Observe(u, "RowsClose", FALSE, StandIn)
     ELSE \E r \in CloseOutcomes(txWrappers[u].tx) : Observe(u, "RowsClose", TRUE, r)
  /\ NoAbort
  /\ UNCHANGED <<procVars, callerVars, commitCalls, rowsW, rowW, unitVars, lifeVars, extVars>>

\* tx.go:101-106  rowsWrapper.Err
RowsErr(u) ==
  /\ CanOp(u) /\ (Running(u) \/ Escaped(u))
  /\ rowsW[u] # "none"
  /\ IF ShortCircuit(txWrappers[u])
     THEN Observe(u, "RowsErr", FALSE, StandIn)
     ELSE \E r \in ErrOutcomes(txWrappers[u].tx) : Observe(u, "RowsErr", TRUE, r)
  /\ NoAbort
  /\ UNCHANGED <<procVars, callerVars, commitCalls, rowsW, rowW, unitVars, lifeVars, extVars>>

\* the values a unit function may return: nil, an error of its own, or the
\* error the last failing operation gave it
FnReturns(u) ==
  {NilErr, UnitErr(u), seenErr}

\* db.go:129-146  req.fn returns err; the processor aborts, answers, appends
FnReturn(u) ==
  /\ panicked = "none"
  /\ Running(u)
  /\ ~Blocked(u)
  /\ \E err \in FnReturns(u) :
       LET w == txWrappers[u]
           mustAbort == MustAbort(err, w)
           wAfter == IF mustAbort THEN SetCell(w, err) ELSE w
           afterFn == IF FnFailed(err)
                      THEN Deliver(result, <<u>>, <<FnErrorResponse(err)>>)
                      ELSE result
       IN
       /\ fnRet' = [fnRet EXCEPT ![u] = err]
       /\ pendingAtRet' = [pendingAtRet EXCEPT ![u] = requests]
       /\ cellAtRet' = [cellAtRet EXCEPT ![u] = w.err]
       /\ beginFailed' = beginFailed
       /\ unitState' = [unitState EXCEPT ![u] = "returned"]
       /\ IF mustAbort THEN Abort(u, err) ELSE NoAbort
       /\ IF AbortDetected(wAfter)
          THEN /\ result' = Deliver(afterFn, requests, AbortResponses(requests))
               /\ requests' = ClearRequests(requests)
               /\ abortedUnits' = abortedUnits \cup Range(requests) \cup {u}
          ELSE /\ result' = afterFn
               /\ requests' = AppendRequest(requests, u)
               /\ abortedUnits' = abortedUnits
       /\ callerPC' = Returned(callerPC, result')
  /\ procPC' = "select"
  /\ cur' = 0
  /\ UNCHANGED <<currentTx, tickReady, commitCalls>>
  /\ seenErr' = NilErr
  /\ lastOp' = NoOp
  /\ UNCHANGED <<rowsW, rowW>>
  /\ UNCHANGED <<lifeVars, extVars>>

Next ==
  \/ TimerFire
  \/ \E u \in Units : Receive(u)
  \/ ProcTick
  \/ \E u \in Units : ExecContext(u)
  \/ \E u \in Units : QueryContext(u)
  \/ \E u \in Units : QueryRowContext(u)
  \/ \E u \in Units : RowScan(u)
  \/ \E u \in Units : RowsScan(u)
  \/ \E u \in Units : RowsNext(u)
  \/ \E u \in Units : RowsClose(u)
  \/ \E u \in Units : RowsErr(u)
  \/ \E u \in Units : FnReturn(u)

Spec == Init /\ [][Next]_vars

TypeOK ==
  /\ callerPC \in [Units -> {"absent", "idle", "waiting", "done"}]
  /\ procPC \in {"select", "exec"}
  /\ cur \in Units \cup {0}
  /\ currentTx \in TxIds \cup {NoTx}
  /\ tickReady \in BOOLEAN
  /\ committed \subseteq Units

\* ---------------------------------------------------------------- fairness
\* The Go scheduler runs every runnable goroutine, the ticker keeps firing, a
\* select with a ready case takes one, and a unit function returns.
\* the steps of runs whose unit functions only execute statements
BatchNext ==
  \/ TimerFire
  \/ \E u \in Units : Receive(u)
  \/ ProcTick
  \/ \E u \in Units : ExecContext(u)
  \/ \E u \in Units : FnReturn(u)
FairSpec ==
  /\ Init /\ [][BatchNext]_vars
  /\ WF_vars(TimerFire)
  /\ WF_vars(ProcTick)
  /\ WF_vars(\E u \in Units : Receive(u))
  /\ WF_vars(\E u \in Units : FnReturn(u))

\* ---------------------------------------------------------------- lifecycle
\* the step of NewBatchDB that fails, "none" when every step succeeds
CtorFailures == {"none", "openWrite", "pragmaWrite", "openRead", "pragmaRead"}
\* db.go:72-110  NewBatchDB: what it leaves behind when the step `fail` fails.
\* Every error return is a bare `return nil, err`.
NewBatchDBOutcome(fail) ==
  IF fail = "openWrite"        \* db.go:77-80
  THEN [pc |-> "failed", writeDB |-> "nil", readDB |-> "nil", started |-> FALSE]
  ELSE IF fail = "pragmaWrite" \* db.go:82-84
  THEN [pc |-> "failed", writeDB |-> "open", readDB |-> "nil", started |-> FALSE]
  ELSE IF fail = "openRead"    \* db.go:87-90
  THEN [pc |-> "failed", writeDB |-> "open", readDB |-> "nil", started |-> FALSE]
  ELSE IF fail = "pragmaRead"  \* db.go:96-98
  THEN [pc |-> "failed", writeDB |-> "open", readDB |-> "open", started |-> FALSE]
  ELSE [pc |-> "ok", writeDB |-> "open", readDB |-> "open", started |-> TRUE]

\* db.go:72-110  NewBatchDB(path, flush); on success the processor goroutine
\* starts and creates its ticker (db.go:115), and time.NewTicker panics on a
\* period that is not positive
NewBatchDBCall(flush) ==
  /\ ctorPC = "new"
  /\ flushTimeout' = flush
  /\ \E fail \in CtorFailures :
       LET o == NewBatchDBOutcome(fail) IN
       /\ ctorPC' = o.pc
       /\ writeDB' = o.writeDB
       /\ readDB' = o.readDB
       /\ started' = o.started
       /\ period' = IF o.started THEN TickerPeriod(flush) ELSE <<>>
       /\ panicked' = IF o.started /\ ~IsPositive(TickerPeriod(flush))
                      THEN "ticker" ELSE panicked
  /\ lastOp' = NoOp
  /\ UNCHANGED <<closePC, afterClose, inner>>
  /\ UNCHANGED <<procVars, callerVars, storeVars, unitVars>>
  /\ UNCHANGED <<txWrappers, rowsW, rowW, seenErr>>

\* NewBatchDB called as the test calls it
NewBatchDB == NewBatchDBCall(FlushOfTest)

\* db.go:173  Close: rerr := db.readDB.Close()
CloseRead ==
  /\ ctorPC = "ok"
  /\ closePC = "idle"
  /\ readDB' = "closed"
  /\ closePC' = "readClosed"
  /\ lastOp' = NoOp
  /\ UNCHANGED <<ctorPC, writeDB, started, afterClose, extVars>>
  /\ UNCHANGED <<procVars, callerVars, storeVars, unitVars>>
  /\ UNCHANGED <<txWrappers, rowsW, rowW, seenErr, panicked>>

\* db.go:174-176  Close takes writeDBLock, which no other code takes, and
\* closes the write pool; a transaction that holds the connection keeps it
\* until it ends
CloseWrite ==
  /\ closePC = "readClosed"
  /\ writeDB' = "closed"
  /\ closePC' = "done"
  /\ lastOp' = NoOp
  /\ UNCHANGED <<ctorPC, readDB, started, afterClose, extVars>>
  /\ UNCHANGED <<procVars, callerVars, storeVars, unitVars>>
  /\ UNCHANGED <<txWrappers, rowsW, rowW, seenErr, panicked>>

\* the read sees the uncommitted effects of the open transactions as well
ReadViewDirty(st) == st.committed \cup UNION {st.txWrites[t] : t \in TxIds}
\* db.go:87,101  the embedded ReadDBHandler is the read pool, opened on its own
\* read-only connections: a statement on it sees the committed store
ReadView(st) == st.committed

\* db.go:101  a direct Exec/Query/QueryRow on the BatchDB, outside Write
DirectRead ==
  /\ ctorPC = "ok"
  /\ lastOp' = [NoOp EXCEPT !.op = "DirectRead",
                            !.contacted = readDB = "open",
                            !.ret = IF readDB = "open" THEN NilErr ELSE ClosedErr,
                            !.seen = IF readDB = "open" THEN ReadView(Store) ELSE {}]
  /\ UNCHANGED <<lifeVars, extVars>>
  /\ UNCHANGED <<procVars, callerVars, storeVars, unitVars>>
  /\ UNCHANGED <<txWrappers, rowsW, rowW, seenErr, panicked>>

\* construction, the processor on units that execute statements, direct
\* reads and Close
LifeNext ==
  \/ NewBatchDB
  \/ CloseRead
  \/ CloseWrite
  \/ DirectRead
  \/ TimerFire
  \/ \E u \in Units : Receive(u)
  \/ ProcTick
  \/ \E u \in Units : ExecContext(u)
  \/ \E u \in Units : FnReturn(u)

LifeSpec == LifeInit /\ [][LifeNext]_vars

\* db.go:161-170 called from inside req.fn (db.go:129): the function of the
\* running unit u calls Write on the same BatchDB; the inner request v is a
\* new caller that blocks in the send on db.requests, and the function goes
\* on only when that Write returns
NestedWrite(u, v) ==
  /\ CanOp(u) /\ Running(u)
  /\ inner = NoInner
  /\ callerPC[v] = "absent"
  /\ \A w \in Units : w < v => callerPC[w] # "absent"
  /\ callerPC' = [callerPC EXCEPT ![v] = "idle"]
  /\ inner' = [outer |-> u, req |-> v]
  /\ lastOp' = NoOp
  /\ UNCHANGED <<procVars, result, storeVars, unitVars, lifeVars>>
  /\ UNCHANGED <<txWrappers, rowsW, rowW, seenErr, panicked, flushTimeout, period>>

\* the steps of runs whose unit functions execute statements and may call Write
NestedNext ==
  \/ TimerFire
  \/ \E u \in Units : Receive(u)
  \/ ProcTick
  \/ \E u \in Units : ExecContext(u)
  \/ \E u, v \in Units : NestedWrite(u, v)
  \/ \E u \in Units : FnReturn(u)

NestedSpec == Init /\ [][NestedNext]_vars

\* construction with any flush interval, then the processor on units that
\* execute statements
TickerNext ==
  \/ \E d \in FlushInputs : NewBatchDBCall(d)
  \/ TimerFire
  \/ \E u \in Units : Receive(u)
  \/ ProcTick
  \/ \E u \in Units : ExecContext(u)
  \/ \E u \in Units : FnReturn(u)

TickerSpec == LifeInit /\ [][TickerNext]_vars

\* ---------------------------------------------------------------- claims
\* a failure has occurred somewhere in the run: a unit function returned an
\* error, a handle recorded a store error, Begin or Commit failed
SomeFailure ==
  \E u \in Units :
    \/ fnRet[u] \notin {NoRet, NilErr}
    \/ txWrappers[u].err # NilErr
    \/ (\E i \in 1..Len(result[u]) : result[u][i] # NilErr)

\* the effects unit u has made in its transaction and that are not committed yet
PendingEffects(u) ==
  IF txWrappers[u].tx = NoTx THEN {} ELSE txWrites[txWrappers[u].tx] \cap {Effect(u)}

\* C1: in every fair run either a unit function, Begin or Commit fails, or
\* eventually every caller's Write call has returned nil; at the moment a call returns nil the effects
\* of its unit are in the committed store, and the committed store never loses
\* an effect, so every later direct read sees them.
C1_AllSucceedAndVisible ==
  /\ <>(SomeFailure \/ \A u \in Callers : callerPC[u] = "done" /\ result[u] = <<NilErr>>)
  /\ [][/\ \A u \in Units :
             (result[u] = <<>> /\ result'[u] = <<NilErr>>) =>
               (unitState[u] = "returned" /\ PendingEffects(u) \subseteq committed')
        /\ committed \subseteq committed']_vars
C1_Witness ==
  /\ ~SomeFailure
  /\ Cardinality(Callers) > 1
  /\ \A u \in Callers : callerPC[u] = "done" /\ result[u] = <<NilErr>>
                        /\ Effect(u) \in committed

\* C2: a Write call receives nil only when the transaction of its unit has
\* been committed successfully; a unit in the pending list has returned nil
\* from its function, has no response yet and its caller is still blocked.
C2_NilOnlyAfterCommit ==
  /\ \A u \in Units :
       (\E i \in 1..Len(result[u]) : result[u][i] = NilErr) =>
         /\ txWrappers[u].tx # NoTx
         /\ txState[txWrappers[u].tx] = "committed"
  /\ \A u \in Range(requests) :
       /\ result[u] = <<>>
       /\ callerPC[u] = "waiting"
       /\ fnRet[u] = NilErr
C2_Witness ==
  \E u, v \in Units :
    /\ u # v
    /\ result[u] = <<NilErr>> /\ txState[txWrappers[u].tx] = "committed"
    /\ result[v] = <<TxAbortedErr>> /\ txState[txWrappers[v].tx] = "rolledback"

\* C3: when a unit function returns an error while k >= 0 earlier units are
\* pending, the failing unit's Write receives exactly that error and each of
\* the k pending units receives the generic "Transaction aborted" error, which
\* is never the failing unit's error.
C3_AbortResponses ==
  \A u \in Units :
    (fnRet[u] # NoRet /\ FnFailed(fnRet[u])) =>
      /\ result[u] = <<fnRet[u]>>
      /\ \A v \in Range(pendingAtRet[u]) :
           result[v] = <<TxAbortedErr>> /\ TxAbortedErr # fnRet[u]
C3_Witness ==
  /\ pendingAtRet[3] = <<1, 2>>
  /\ fnRet[3] = UnitErr(3)
  /\ result[1] = <<TxAbortedErr>>
  /\ result[2] = <<TxAbortedErr>>
  /\ result[3] = <<UnitErr(3)>>

\* C4: no effect of a unit whose batch was aborted (the failing unit and the
\* units that were pending before it) is ever in the committed store, in the
\* state of the abort and in every later state.
C4_AbortedEffectsAbsent ==
  \A u \in abortedUnits : Effect(u) \notin committed
C4_Witness ==
  \E u, v \in abortedUnits :
    /\ u # v
    /\ fnRet[u] = NilErr /\ FnFailed(fnRet[v])
    /\ \E w \in Units : result[w] = <<NilErr>> /\ Effect(w) \in committed

\* C5: a unit whose function returned nil although its handle's error cell
\* was set during the execution is answered by the processor: its Write
\* call receives a response, and that response is a non-nil error.
C5_SwallowedErrorAnswered ==
  \A u \in Units :
    (fnRet[u] = NilErr /\ cellAtRet[u] \notin {NoRet, NilErr}) =>
      (Len(result[u]) > 0 /\ result[u][1] # NilErr)

\* a cursor operation performed on the cursor of unit u by its caller after
\* Write returned
CursorOps == {"RowScan", "RowsScan", "RowsNext", "RowsClose", "RowsErr"}
\* unit u was pending when a different unit aborted the shared transaction
AbortedByOther(u) ==
  /\ u \in abortedUnits
  /\ fnRet[u] = NilErr
  /\ cellAtRet[u] = NilErr
  /\ result[u] = <<TxAbortedErr>>

\* C6: a cursor a unit obtained from its handle and that is used after a
\* different unit of the same batch aborted the shared transaction does not
\* contact the underlying rows and reports the sticky abort error on Scan,
\* Close and Err, and false on Next.
C6_CursorSeesSiblingAbort ==
  (lastOp.op \in CursorOps /\ lastOp.escaped /\ AbortedByOther(lastOp.unit)) =>
    /\ ~lastOp.contacted
    /\ lastOp.ret = IF lastOp.op = "RowsNext" THEN FalseRet ELSE AlreadyAbortedErr

\* C7: a non-empty error cell stays non-empty, and every handle or cursor
\* operation performed while the cell is non-empty issues no call to the
\* underlying transaction or rows; Next returns false and every
\* error-returning operation returns a non-nil error.
C7_StickyShortCircuit ==
  /\ [][\A u \in Units : txWrappers[u].err # NilErr => txWrappers'[u].err = txWrappers[u].err]_vars
  /\ [](lastOp.op # "none" /\ lastOp.cellSet =>
          /\ ~lastOp.contacted
          /\ lastOp.op = "RowsNext" => lastOp.ret = FalseRet
          /\ lastOp.op \notin {"RowsNext", "QueryRowContext"} => IsError(lastOp.ret)
          /\ panicked = "none")
\* a cursor created before the cell was set is used after it was set
C7_Witness ==
  /\ lastOp.op = "RowsScan"
  /\ lastOp.cellSet
  /\ lastOp.ret = AlreadyAbortedErr
  /\ ~lastOp.contacted

\* C8: the step in which Begin fails answers the triggering unit with the
\* Begin error and nobody else; the unit's function is never run, no
\* transaction is created, the pending list is empty before and after.
C8_BeginFailure ==
  /\ [][\A u \in beginFailed' \ beginFailed :
          /\ requests = <<>> /\ requests' = <<>>
          /\ currentTx' = NoTx
          /\ txState' = txState
          /\ result'[u] = <<BeginErr>>
          /\ \A v \in Units \ {u} : result'[v] = result[v]]_vars
  /\ [](\A u \in beginFailed :
          /\ result[u] = <<BeginErr>>
          /\ unitState[u] = "notrun"
          /\ txWrappers[u].tx = NoTx)
\* Begin failed for one unit and a later unit was committed
C8_Witness ==
  \E u \in beginFailed : \E v \in Units \ beginFailed : result[v] = <<NilErr>>

\* C9: a tick taken with a non-empty pending list calls Commit once on the
\* current transaction, answers every pending unit with the one commit outcome
\* (nil for all when the commit succeeded, the commit error for all when it
\* failed) and empties the pending list; Commit is never called a second time.
C9_UniformCommitOutcome ==
  /\ [][(tickReady /\ ~tickReady' /\ requests # <<>>) =>
          /\ currentTx # NoTx
          /\ commitCalls' = [commitCalls EXCEPT ![currentTx] = 1]
          /\ txState[currentTx] = "live"
          /\ txState'[currentTx] \in {"committed", "commitFailed"}
          /\ \A u \in Range(requests) :
               result'[u] = <<IF txState'[currentTx] = "committed" THEN NilErr ELSE CommitErr>>
          /\ \A u \in Units \ Range(requests) : result'[u] = result[u]
          /\ requests' = <<>>]_vars
  /\ [](\A t \in TxIds : commitCalls[t] <= 1)
C9_Witness ==
  \E u, v \in Units :
    /\ u # v
    /\ txWrappers[u].tx # NoTx
    /\ txWrappers[u].tx = txWrappers[v].tx
    /\ txState[txWrappers[u].tx] = "commitFailed"
    /\ result[u] = <<CommitErr>> /\ result[v] = <<CommitErr>>

\* C10: at most one unit function is in execution at any moment, and it is
\* the one the processor is in; a request is received only when no unit
\* function is in execution.
RunningUnits == {u \in Units : unitState[u] = "running"}
C10_OneUnitAtATime ==
  /\ Cardinality(RunningUnits) <= 1
  /\ procPC = "exec" <=> RunningUnits = {cur}
  /\ procPC = "select" <=> RunningUnits = {}
\* a unit function is in execution, after an operation of its own, while a
\* sibling is pending in the same transaction and another caller has not been
\* received yet
C10_Witness ==
  /\ procPC = "exec"
  /\ lastOp.unit = cur
  /\ requests # <<>>
  /\ \E v \in Units : callerPC[v] = "idle"

\* the uncommitted effects of the transactions that are open
OpenEffects == UNION {txWrites[t] : t \in {x \in TxIds : txState[x] = "live"}}
\* the effects of the units that ran in transaction t
BatchEffects(t) == {Effect(u) : u \in {v \in Units : txWrappers[v].tx = t}}

\* C11: a direct read that succeeds, at any point of any interleaving with the
\* processor, sees none of the effects of the open, uncommitted batch, and of
\* every batch it sees either nothing or, the batch being committed, all the
\* effects the batch committed.
C11_ReadSeesCommittedOnly ==
  (lastOp.op = "DirectRead" /\ lastOp.ret = NilErr) =>
    /\ lastOp.seen \cap OpenEffects = {}
    /\ \A t \in TxIds :
         \/ lastOp.seen \cap BatchEffects(t) = {}
         \/ /\ txState[t] = "committed"
            /\ lastOp.seen \cap BatchEffects(t) = committed \cap BatchEffects(t)
\* a read taken while a batch with effects is open, after an earlier batch of
\* two units was committed
C11_Witness ==
  /\ lastOp.op = "DirectRead"
  /\ Cardinality(lastOp.seen) = 2
  /\ OpenEffects # {}

\* C12: a Write whose request is handed over after Close has begun does not
\* stay blocked: once the processor is through with its unit (the unit is
\* neither in execution nor pending for the next tick) the call has returned.
C12_LateWriteReturns ==
  \A u \in afterClose :
    (~Running(u) /\ u \notin Range(requests)) => callerPC[u] = "done"

\* C13: the write pool is closed only when no batch is in flight: in the step
\* in which Close closes it the pending list is empty and no unit function is
\* in execution, so that every batch that was open when Close was called has
\* been committed or aborted and its units answered.
C13_CloseWaitsForBatch ==
  [][(writeDB = "open" /\ writeDB' = "closed") =>
       (requests = <<>> /\ procPC = "select")]_vars

\* the units whose handle called Rollback on transaction t while the processor
\* was working on them: in an operation of the unit function (tx.go:30,42,66,82)
\* or in the processor after the function returned an error (db.go:135)
ProcAborts(t) ==
  {u \in Units : /\ txWrappers[u].tx = t
                 /\ txWrappers[u].err # NilErr
                 /\ ~(fnRet[u] = NilErr /\ cellAtRet[u] = NilErr)}

\* C14: a transaction that has ended never changes its state again; over all
\* sequences of unit successes, unit failures, handle-detected store errors
\* and ticks Commit is called at most once on a transaction, Rollback at most
\* once, and never both on the same transaction.
C14_OneTerminalEvent ==
  /\ [][\A t \in TxIds : TxDone(t) => txState'[t] = txState[t]]_vars
  /\ [](\A t \in TxIds :
          /\ commitCalls[t] <= 1
          /\ Cardinality(ProcAborts(t)) <= 1
          /\ ~(commitCalls[t] > 0 /\ ProcAborts(t) # {})
          /\ commitCalls[t] > 0 => txState[t] \in {"committed", "commitFailed"}
          /\ ProcAborts(t) # {} => txState[t] = "rolledback")
\* one transaction was rolled back by a handle that detected a store error and
\* whose function then returned an error, another one was committed
C14_Witness ==
  \E t1, t2 \in TxIds :
    /\ txState[t1] = "rolledback"
    /\ \E u \in ProcAborts(t1) : cellAtRet[u] = StoreErr /\ FnFailed(fnRet[u])
    /\ txState[t2] = "committed" /\ commitCalls[t2] = 1

\* C15: once a tick is due while units are pending, the pending units are
\* resolved by that tick before anything else is executed: the processor,
\* waiting in its select with the tick due, does not start the function of a
\* further unit, so that arriving units cannot postpone the commit.
C15_TickNotPostponed ==
  [][(tickReady /\ requests # <<>> /\ procPC = "select") => procPC' = "select"]_vars

\* C16: a unit whose request was received with a transaction at hand is
\* executed, once: it goes from not run to running to returned and never
\* back. A row a unit inserted stays in its transaction until the unit is
\* resolved, is in the committed store when the unit is answered nil, and the
\* committed store holds rows of nil-answered units only, so after N units
\* that each inserted a row were answered nil a read counts exactly N rows.
\* Commit is called only in a step that consumes a tick, so the commits are at
\* most as many as the ticks.
C16_ExactlyOnce ==
  /\ [][\A u \in Units :
          /\ unitState[u] = "running" => unitState'[u] \in {"running", "returned"}
          /\ unitState[u] = "returned" => unitState'[u] = "returned"
          /\ (PendingEffects(u) # {} /\ PendingEffects(u)' = {}) =>
               \/ Effect(u) \in committed' /\ result'[u] = <<NilErr>>
               \/ txState'[txWrappers[u].tx] \in {"rolledback", "commitFailed"}]_vars
  /\ [][commitCalls' # commitCalls => (tickReady /\ ~tickReady')]_vars
  /\ [](\A u \in Units :
          /\ (callerPC[u] \in {"waiting", "done"} /\ u \notin beginFailed) =>
               unitState[u] # "notrun"
          /\ result[u] = <<NilErr>> => unitState[u] = "returned")
  /\ []((lastOp.op = "ExecContext" /\ lastOp.contacted /\ lastOp.ret = NilErr) =>
          PendingEffects(lastOp.unit) = {Effect(lastOp.unit)})
  /\ [](committed \subseteq {Effect(u) : u \in {v \in Units : result[v] = <<NilErr>>}})
\* three units were answered nil by one commit and the store holds three rows
C16_Witness ==
  /\ \A u \in Units : result[u] = <<NilErr>>
  /\ Cardinality(committed) = NumUnits
  /\ commitCalls[1] = 1
  /\ \A t \in TxIds \ {1} : commitCalls[t] = 0

\* C17: when NewBatchDB has failed (opening a pool or applying a pragma
\* failed) no processor goroutine was started and no pool is left open: every
\* pool opened before the failure has been closed.
C17_FailedConstructionClosesPools ==
  ctorPC = "failed" => (~started /\ writeDB # "open" /\ readDB # "open")

\* the handle and cursor operations that contact the store
StoreOps == {"ExecContext", "QueryContext", "RowScan", "RowsScan", "RowsNext",
             "RowsClose", "RowsErr"}

\* C18: when an operation that contacted the store got an error from it while
\* the error cell was empty, the cell now holds that error and the
\* transaction is no longer live (its rollback was issued), so the unit cannot
\* be committed.
C18_StoreErrorSetsCell ==
  (/\ lastOp.op \in StoreOps
   /\ lastOp.contacted
   /\ IsError(lastOp.ret)
   /\ ~lastOp.cellSet) =>
    /\ txWrappers[lastOp.unit].err = lastOp.ret
    /\ txState[txWrappers[lastOp.unit].tx] # "live"

\* C19: Abort is never called on a handle whose error cell is already set, so
\* the "Abort called again" panic does not happen; when the handle recorded a
\* store error and the function then returned an error, the cell still holds
\* the store error.
C19_CellSetOnce ==
  /\ panicked # "abortAgain"
  /\ \A u \in Units :
       (FnFailed(fnRet[u]) /\ fnRet[u] # NoRet /\ cellAtRet[u] \notin {NoRet, NilErr}) =>
         txWrappers[u].err = cellAtRet[u]
\* a handle recorded a store error and its function returned its own error
C19_Witness ==
  \E u \in Units :
    /\ cellAtRet[u] = StoreErr
    /\ fnRet[u] = UnitErr(u)
    /\ result[u] = <<UnitErr(u)>>
    /\ panicked = "none"

\* the handles that have been made
HandleIds == {txWrappers[u].id : u \in Units} \ {0}

\* C20: no two units have the same handle, also when they share a
\* transaction; the handle a unit function is started with was made in that
\* step, is none of the handles made before, and its error cell is empty.
C20_FreshHandlePerUnit ==
  /\ [](\A u, v \in Units :
          (u # v /\ txWrappers[u].id # 0 /\ txWrappers[v].id # 0) =>
            txWrappers[u].id # txWrappers[v].id)
  /\ [][\A u \in Units :
          (unitState[u] = "notrun" /\ unitState'[u] = "running") =>
            /\ txWrappers'[u].id \notin HandleIds \cup {0}
            /\ txWrappers'[u].err = NilErr
            /\ \A v \in Units \ {u} : txWrappers'[v] = txWrappers[v]]_vars
\* two units of one transaction: the handle of the second is aborted, the
\* handle of the first is not
C20_Witness ==
  \E u, v \in Units :
    /\ u # v
    /\ txWrappers[u].tx # NoTx
    /\ txWrappers[u].tx = txWrappers[v].tx
    /\ txWrappers[u].id # txWrappers[v].id
    /\ txWrappers[u].err = NilErr
    /\ txWrappers[v].err # NilErr

\* the units that were given a handle on transaction t
BatchUnits(t) == {u \in Units : txWrappers[u].tx = t}

\* C21: the transaction a unit function is started on is live; when the
\* pending list is empty (after an abort, a commit, a failed Begin) it is a
\* transaction begun in that very step, otherwise it is the transaction of
\* the pending units. A unit never changes its transaction, a finished
\* transaction never gains a unit, no operation of a unit function contacts a
\* finished transaction, and an abort fails only units that had been started
\* before it.
C21_ResolvedBatchImmutable ==
  /\ [][\A u \in Units :
          /\ (unitState[u] = "notrun" /\ unitState'[u] = "running") =>
               /\ txState'[txWrappers'[u].tx] = "live"
               /\ requests = <<>> => txState[txWrappers'[u].tx] = "none"
               /\ requests # <<>> =>
                    \A v \in Range(requests) : txWrappers[v].tx = txWrappers'[u].tx
          /\ txWrappers[u].tx # NoTx => txWrappers'[u].tx = txWrappers[u].tx
          /\ u \in abortedUnits' \ abortedUnits => unitState[u] # "notrun"]_vars
  /\ [][\A t \in TxIds : TxDone(t) => BatchUnits(t)' = BatchUnits(t)]_vars
  /\ []((lastOp.op # "none" /\ lastOp.contacted /\ ~lastOp.escaped
          /\ lastOp.op # "DirectRead") => ~lastOp.txDone)
\* Begin failed for unit 1, unit 2 aborted its transaction, unit 3 ran on a
\* new one and was committed
C21_Witness ==
  /\ 1 \in beginFailed
  /\ FnFailed(fnRet[2]) /\ fnRet[2] # NoRet
  /\ txState[txWrappers[2].tx] = "rolledback"
  /\ result[3] = <<NilErr>>
  /\ txWrappers[3].tx # txWrappers[2].tx

\* the transactions that are begun and neither committed nor rolled back
LiveTxs == {t \in TxIds : txState[t] = "live"}

\* C22: while the processor waits in its select, a live transaction exists
\* exactly when the pending list is non-empty, and it is then currentTx and
\* the only one; every pending unit ran on it, returned nil with an empty
\* error cell and has no response yet.
C22_OpenIffPending ==
  procPC = "select" =>
    /\ LiveTxs # {} <=> requests # <<>>
    /\ LiveTxs \subseteq {currentTx}
    /\ \A u \in Range(requests) :
         /\ txWrappers[u].tx = currentTx
         /\ unitState[u] = "returned"
         /\ fnRet[u] = NilErr
         /\ cellAtRet[u] = NilErr
         /\ result[u] = <<>>
\* two units are pending on a live transaction after an earlier transaction
\* was rolled back
C22_Witness ==
  /\ procPC = "select"
  /\ Len(requests) = 2
  /\ LiveTxs = {currentTx}
  /\ \E t \in TxIds : txState[t] = "rolledback"

\* a sequence of units in the order in which their requests were received
\* (units are numbered in that order)
InReceiptOrder(q) == \A i, j \in 1..Len(q) : i < j => q[i] < q[j]

C24_WritePoolOwnedByProcessor ==
  [][started => writeDB' = writeDB]_vars

\* C25: after a successful construction the period of the flush ticker is
\* the flush interval that was passed to NewBatchDB, whenever that interval is
\* positive, and the processor has not failed at creating its ticker, whatever
\* interval was passed.
C25_PeriodIsFlushInterval ==
  ctorPC = "ok" =>
    /\ IsPositive(flushTimeout) => period = flushTimeout
    /\ panicked # "ticker"

\* a unit function returned nil although an operation on its handle had failed
Swallowed ==
  \E u \in Units : fnRet[u] = NilErr /\ cellAtRet[u] \notin {NoRet, NilErr}

\* C26: when every unit function returns, calls no Write and returns an error
\* whenever an operation on its handle failed, every Write call the processor
\* received returns in every fair run, with exactly one outcome, whatever unit
\* functions, Begins and commits fail.
C26_EveryWriteReturnsOnce ==
  /\ \A u \in Units :
       (callerPC[u] = "waiting") ~>
         (Swallowed \/ (callerPC[u] = "done" /\ Len(result[u]) = 1))
  /\ [](\A u \in Units : callerPC[u] = "done" => Len(result[u]) = 1)
C26_Witness ==
  /\ ~Swallowed
  /\ \A u \in Units : callerPC[u] = "done" /\ Len(result[u]) = 1
  /\ \E u \in Units : result[u] = <<BeginErr>>
  /\ \E u \in Units : result[u] = <<CommitErr>>
  /\ \E u \in Units : result[u] = <<UnitErr(u)>>

\* C27: the processor sends at most one value to any unit's caller, whichever
\* of Begin failure, function error, recorded error, abort of the batch or
\* commit answers it, and a unit that has been answered is neither in the
\* pending list nor the unit being executed, so no later send can be addressed
\* to a caller that has returned.
C27_AtMostOneResponse ==
  \A u \in Units :
    /\ Len(result[u]) <= 1
    /\ Len(result[u]) = 1 => (u \notin Range(requests) /\ ~Running(u))
C27_Witness ==
  /\ procPC = "select" /\ requests = <<>>
  /\ \E u \in Units : result[u] = <<TxAbortedErr>>
  /\ \E u \in Units : result[u] = <<StoreErr>> /\ txWrappers[u].err = StoreErr
  /\ \E u \in Units : result[u] = <<NilErr>>

\* C28: once a unit function has called Write on the same BatchDB, that
\* function never returns: the inner request is never received, the processor
\* stays in the function, and from then on no Write call, pending, waiting to
\* be received or the inner one, gets a response.
C28_NestedWriteDeadlocks ==
  /\ [](inner # NoInner =>
         /\ Running(inner.outer) /\ unitState[inner.outer] = "running"
         /\ callerPC[inner.req] = "idle" /\ result[inner.req] = <<>>)
  /\ [][inner # NoInner =>
         /\ inner' = inner
         /\ procPC' = procPC /\ cur' = cur /\ requests' = requests
         /\ callerPC' = callerPC /\ result' = result]_vars
C28_Witness ==
  /\ inner # NoInner
  /\ tickReady
  /\ \E w \in Units \ {inner.outer, inner.req} : callerPC[w] \in {"idle", "waiting"}

\* C29: on a cursor of a handle whose error cell is set, Next returns false
\* and Err returns a non-nil error, which is the error the running function
\* has in hand after its loop; a function that returns that error is answered
\* with it, and no unit that returned with its cell set is answered with nil.
C29_LoopReportsAbort ==
  /\ (lastOp.op = "RowsNext" /\ lastOp.cellSet) => lastOp.ret = FalseRet
  /\ (lastOp.op = "RowsErr" /\ lastOp.cellSet) =>
       /\ lastOp.ret = AlreadyAbortedErr
       /\ FnFailed(lastOp.ret)
       /\ ~lastOp.escaped => seenErr = lastOp.ret
  /\ \A u \in Units :
       /\ fnRet[u] = AlreadyAbortedErr =>
            (result[u] = <<AlreadyAbortedErr>> /\ cellAtRet[u] # NilErr)
       /\ cellAtRet[u] \notin {NoRet, NilErr} => result[u] # <<NilErr>>
C29_Witness ==
  /\ lastOp.op = "RowsErr" /\ lastOp.cellSet /\ ~lastOp.escaped
  /\ Running(lastOp.unit)
  /\ rowsW[lastOp.unit] # "none"
  /\ seenErr = AlreadyAbortedErr

\* C30: a row cursor with a nil row belongs to a handle whose error cell is
\* set, and Scan on such a cursor returns the abort error without touching
\* the row: the nil row is never dereferenced.
C30_NilRowNeverTouched ==
  /\ \A u \in Units : rowW[u] = "nil" => txWrappers[u].err # NilErr
  /\ (lastOp.op = "RowScan" /\ rowW[lastOp.unit] = "nil") =>
       (lastOp.ret = AlreadyAbortedErr /\ ~lastOp.contacted)
  /\ panicked # "nilRow"
C30_Witness ==
  /\ lastOp.op = "RowScan"
  /\ rowW[lastOp.unit] = "nil"
  /\ lastOp.ret = AlreadyAbortedErr
  /\ panicked = "none"

====
